---- MODULE Spec2Model ----
(***************************************************************************)
(* A model of the rt_weekend_rust path tracer: the vector kernel and its  *)
(* indexing, Interval, Sphere::hit, HittableList::hit, the materials,      *)
(* Camera::initialize, Camera::get_ray, Camera::ray_color, write_color and *)
(* the parallel Camera::render.                                            *)
(*                                                                         *)
(* f64 values are modelled in fixed point: the integer X stands for the    *)
(* real X / Scale.  Every product and quotient is rounded to the nearest   *)
(* representable value (half away from zero), the way an IEEE operation    *)
(* rounds its exact result; sqrt rounds down.  INFINITY is a value above   *)
(* every finite one.                                                       *)
(***************************************************************************)
EXTENDS Integers, Sequences, FiniteSets, TLC

VARIABLES
    list_hit,     \* one activation of HittableList::hit (hittable_list.rs)
    rc,           \* one top-level call of Camera::ray_color and its recursion
    wc,           \* one call of write_color (color.rs)
    camera,       \* the Camera struct (camera.rs:7-30)
    world,        \* the scene handed to render: HittableList.objects
    render,       \* one activation of Camera::render
    vi,           \* one indexing of a Vec3 (vec3.rs:228-250)
    ds,           \* one call of Dielectric::scatter (material.rs:80-105)
    gr            \* one call of Camera::get_ray (camera.rs:228-241)

vars == <<list_hit, rc, wc, camera, world, render, vi, ds, gr>>

-----------------------------------------------------------------------------
(* Fixed-point arithmetic standing for f64.                                *)

Scale == 1000

INFINITY == 1000000000

\* f64::NAN, a value apart from every number: every comparison with it is false
NaN == 2000000000

IsNaN(x) == x = NaN

IsInf(x) == x = INFINITY \/ x = -INFINITY

Abs(x) == IF x < 0 THEN -x ELSE x

Sgn(x) == IF x < 0 THEN -1 ELSE 1

\* a / b rounded to the nearest integer, ties away from zero (b # 0)
RDiv(a, b) == Sgn(a) * Sgn(b) * ((2 * Abs(a) + Abs(b)) \div (2 * Abs(b)))

\* the f64 comparisons <, >, <=, >=
FLt(a, b) == ~IsNaN(a) /\ ~IsNaN(b) /\ a < b

FGt(a, b) == ~IsNaN(a) /\ ~IsNaN(b) /\ a > b

FLe(a, b) == ~IsNaN(a) /\ ~IsNaN(b) /\ a <= b

FGe(a, b) == ~IsNaN(a) /\ ~IsNaN(b) /\ a >= b

\* f64 negation
FNeg(a) == IF IsNaN(a) THEN NaN ELSE -a

\* f64 addition and subtraction
FAdd(a, b) ==
    IF IsNaN(a) \/ IsNaN(b) THEN NaN
    ELSE IF IsInf(a) THEN (IF b = -a THEN NaN ELSE a)
    ELSE IF IsInf(b) THEN b
    ELSE a + b

FSub(a, b) == FAdd(a, FNeg(b))

\* f64 multiplication
FMul(a, b) ==
    IF IsNaN(a) \/ IsNaN(b) THEN NaN
    ELSE IF IsInf(a) \/ IsInf(b)
         THEN (IF a = 0 \/ b = 0 THEN NaN ELSE Sgn(a) * Sgn(b) * INFINITY)
    ELSE RDiv(a * b, Scale)

\* f64 division
FDiv(a, b) ==
    IF IsNaN(a) \/ IsNaN(b) THEN NaN
    ELSE IF IsInf(a) THEN (IF IsInf(b) THEN NaN ELSE Sgn(a) * Sgn(b) * INFINITY)
    ELSE IF IsInf(b) THEN 0
    ELSE IF b = 0 THEN (IF a = 0 THEN NaN ELSE Sgn(a) * INFINITY)
    ELSE RDiv(a * Scale, b)

RECURSIVE IsqrtIter(_, _, _)
\* the largest s with s * s <= n, searched in lo .. hi - 1 (lo*lo <= n < hi*hi)
IsqrtIter(n, lo, hi) ==
    IF hi - lo <= 1 THEN lo
    ELSE LET mid == (lo + hi) \div 2 IN
         IF mid * mid <= n THEN IsqrtIter(n, mid, hi) ELSE IsqrtIter(n, lo, mid)

Isqrt(n) == IsqrtIter(n, 0, IF n + 1 < 46341 THEN n + 1 ELSE 46341)

\* f64::sqrt
FSqrt(x) ==
    IF IsNaN(x) \/ x < 0 THEN NaN
    ELSE IF x = INFINITY THEN INFINITY
    ELSE Isqrt(x * Scale)

\* f64::min and f64::max: the other operand when one is NaN
FMin(a, b) == IF IsNaN(a) THEN b ELSE IF IsNaN(b) THEN a ELSE IF a < b THEN a ELSE b

FMax(a, b) == IF IsNaN(a) THEN b ELSE IF IsNaN(b) THEN a ELSE IF a > b THEN a ELSE b

\* f64::abs
FAbs(a) == IF IsNaN(a) THEN NaN ELSE Abs(a)

-----------------------------------------------------------------------------
(* Vec3 (vec3.rs), Ray (ray.rs), Interval (interval.rs).                   *)

Vec3(x, y, z) == [x |-> x, y |-> y, z |-> z]

\* a vector given in whole units
V(x, y, z) == Vec3(x * Scale, y * Scale, z * Scale)

Zero == Vec3(0, 0, 0)

\* a vector of NaN components
NaNVec == Vec3(NaN, NaN, NaN)

Neg(v) == Vec3(FNeg(v.x), FNeg(v.y), FNeg(v.z))

VAdd(a, b) == Vec3(FAdd(a.x, b.x), FAdd(a.y, b.y), FAdd(a.z, b.z))

VSub(a, b) == Vec3(FSub(a.x, b.x), FSub(a.y, b.y), FSub(a.z, b.z))

\* Vec3 * Vec3, componentwise
VMul(a, b) == Vec3(FMul(a.x, b.x), FMul(a.y, b.y), FMul(a.z, b.z))

\* Vec3 * f64 and f64 * Vec3
VScale(v, s) == Vec3(FMul(v.x, s), FMul(v.y, s), FMul(v.z, s))

\* Vec3 / f64: self * (1.0 / scalar)
VDiv(v, s) == VScale(v, FDiv(Scale, s))

Dot(a, b) == FAdd(FAdd(FMul(a.x, b.x), FMul(a.y, b.y)), FMul(a.z, b.z))

Cross(a, b) ==
    Vec3(FSub(FMul(a.y, b.z), FMul(a.z, b.y)),
         FSub(FMul(a.z, b.x), FMul(a.x, b.z)),
         FSub(FMul(a.x, b.y), FMul(a.y, b.x)))

LengthSquared(v) == FAdd(FAdd(FMul(v.x, v.x), FMul(v.y, v.y)), FMul(v.z, v.z))

Length(v) == FSqrt(LengthSquared(v))

Normalized(v) == VDiv(v, Length(v))

Ray(origin, direction) == [orig |-> origin, dir |-> direction]

At(r, t) == VAdd(r.orig, VScale(r.dir, t))

Interval(min, max) == [min |-> min, max |-> max]

Contains(iv, x) == FLe(iv.min, x) /\ FLe(x, iv.max)

\* surrounds accepting the upper bound itself
SurroundsUpToMax(iv, x) == FLt(iv.min, x) /\ FLe(x, iv.max)

Surrounds(iv, x) == FLt(iv.min, x) /\ FLt(x, iv.max)

Clamp(iv, x) ==
    IF FLt(x, iv.min) THEN iv.min ELSE IF FGt(x, iv.max) THEN iv.max ELSE x

-----------------------------------------------------------------------------
(* Option<T>.                                                              *)

None == [tag |-> "None"]

Some(x) == [tag |-> "Some", val |-> x]

IsSome(o) == o.tag = "Some"

-----------------------------------------------------------------------------
(* Materials (material.rs) as values: the struct's kind and fields.        *)

NullMaterial == [kind |-> "NullMaterial"]

Lambertian(albedo) == [kind |-> "Lambertian", albedo |-> albedo]

Metal(albedo, fuzz) == [kind |-> "Metal", albedo |-> albedo, fuzz |-> fuzz]

Dielectric(ir) == [kind |-> "Dielectric", ir |-> ir]

-----------------------------------------------------------------------------
(* HitRecord (hittable.rs) and Sphere (sphere.rs).                         *)

\* HitRecord::default()
DefaultHitRecord ==
    [p |-> Zero, normal |-> Zero, t |-> 0, mat |-> NullMaterial, front_face |-> TRUE]

\* HitRecord::set_face_normal
SetFaceNormal(rec, r, outward_normal) ==
    LET front_face == FLt(Dot(r.dir, outward_normal), 0) IN
    [rec EXCEPT !.front_face = front_face,
                !.normal = IF front_face THEN outward_normal ELSE Neg(outward_normal)]

Sphere(center, radius, mat) == [center |-> center, radius |-> radius, mat |-> mat]

\* oc, a, h and the discriminant h * h - a * c of Sphere::hit's quadratic
SphereQuadratic(s, r) ==
    LET oc == VSub(s.center, r.orig)
        a  == LengthSquared(r.dir)
        h  == Dot(r.dir, oc)
        c  == FSub(LengthSquared(oc), FMul(s.radius, s.radius))
    IN  [a |-> a, h |-> h, discriminant |-> FSub(FMul(h, h), FMul(a, c))]

\* the two roots (h - sqrtd) / a and (h + sqrtd) / a
SphereRoots(q) ==
    LET sqrtd == FSqrt(q.discriminant) IN
    <<FDiv(FSub(q.h, sqrtd), q.a), FDiv(FAdd(q.h, sqrtd), q.a)>>

\* the record Sphere::hit builds for an accepted root
SphereRecord(s, r, root) ==
    LET p              == At(r, root)
        outward_normal == VDiv(VSub(p, s.center), s.radius)
        rec            == [DefaultHitRecord EXCEPT !.t = root, !.p = p,
                                                   !.normal = outward_normal]
    IN  [SetFaceNormal(rec, r, outward_normal) EXCEPT !.mat = s.mat]

\* the root Sphere::hit accepts with the inclusive Interval::contains in
\* place of surrounds
AcceptedRootContains(q, ray_t) ==
    IF FLt(q.discriminant, 0) THEN None
    ELSE LET roots == SphereRoots(q) IN
         IF Contains(ray_t, roots[1]) THEN Some(roots[1])
         ELSE IF Contains(ray_t, roots[2]) THEN Some(roots[2])
         ELSE None

\* the root Sphere::hit accepts: none when the discriminant is negative, else
\* the smaller root if ray_t surrounds it, else the larger if ray_t surrounds it
AcceptedRoot(q, ray_t) ==
    IF FLt(q.discriminant, 0) THEN None
    ELSE LET roots == SphereRoots(q) IN
         IF Surrounds(ray_t, roots[1]) THEN Some(roots[1])
         ELSE IF Surrounds(ray_t, roots[2]) THEN Some(roots[2])
         ELSE None

\* Sphere::hit
SphereHit(s, r, ray_t) ==
    LET root == AcceptedRoot(SphereQuadratic(s, r), ray_t) IN
    IF IsSome(root) THEN Some(SphereRecord(s, r, root.val)) ELSE None

-----------------------------------------------------------------------------
(* HittableList::hit (hittable_list.rs:32-44).                             *)

\* the locals before the loop
HitListStart(ray_t) ==
    [closest_hitrecord |-> None, closest_so_far |-> ray_t.max]

\* every member asked about the caller's interval as it came
MemberIntervalWhole(st, ray_t) == ray_t

\* the interval a member is asked about: Interval::new(ray_t.min, closest_so_far)
MemberInterval(st, ray_t) == Interval(ray_t.min, st.closest_so_far)

\* a loop body that asks every member about the caller's whole interval
HitListBodyNoShrink(st, object, r, ray_t) ==
    LET hit_rec == SphereHit(object, r, ray_t) IN
    IF IsSome(hit_rec)
    THEN [closest_hitrecord |-> hit_rec, closest_so_far |-> hit_rec.val.t]
    ELSE st

\* object.hit(r, Interval::new(ray_t.min, closest_so_far))
MemberHit(st, object, r, ray_t) == SphereHit(object, r, MemberInterval(st, ray_t))

\* one iteration of the loop over self.objects
HitListBody(st, object, r, ray_t) ==
    LET hit_rec == MemberHit(st, object, r, ray_t) IN
    IF IsSome(hit_rec)
    THEN [closest_hitrecord |-> hit_rec, closest_so_far |-> hit_rec.val.t]
    ELSE st

RECURSIVE HitListFrom(_, _, _, _, _)
HitListFrom(objects, k, st, r, ray_t) ==
    IF k > Len(objects) THEN st
    ELSE HitListFrom(objects, k + 1, HitListBody(st, objects[k], r, ray_t), r, ray_t)

\* the whole call
HittableListHit(objects, r, ray_t) ==
    HitListFrom(objects, 1, HitListStart(ray_t), r, ray_t).closest_hitrecord

-----------------------------------------------------------------------------
(* The random sources (rtweekend.rs, vec3.rs) as the sets of values a draw *)
(* can give, and Material::scatter (material.rs) as the set of results its *)
(* draws can give.                                                         *)

\* random_f64(): some values of [0, 1)
RandomF64 == {0, Scale \div 2, Scale - 1}

\* Vec3::random_interval(-1.0, 1.0): some points of the cube [-1, 1)^3
RandomInterval ==
    { Vec3(0, Scale \div 2, 0), Vec3(0, 0, Scale \div 2),
      Vec3(-(Scale \div 2), 0, 0), Vec3(Scale - 1, Scale - 1, Scale - 1) }

\* Vec3::random_in_unit_sphere(): the loop returns the first draw inside the sphere
RandomInUnitSphere == {p \in RandomInterval : LengthSquared(p) < Scale}

\* Vec3::random_unit_vector()
RandomUnitVector == {Normalized(p) : p \in RandomInUnitSphere}

\* Vec3::near_zero: every component below 1e-8 in absolute value, which in
\* this resolution is a component of 0
NearZero(v) == FLt(FAbs(v.x), 1) /\ FLt(FAbs(v.y), 1) /\ FLt(FAbs(v.z), 1)

\* Vec3::reflect
Reflect(v, n) ==
    LET scalar     == FMul(Dot(v, n), 2 * Scale)
        projection == VScale(n, scalar)
    IN  VSub(v, projection)

\* Vec3::refract
Refract(uv, n, etai_over_etat) ==
    LET a              == Neg(uv)
        b              == n
        cos_theta      == FMin(Dot(a, b), Scale)
        r_out_perp     == VScale(VAdd(uv, VScale(n, cos_theta)), etai_over_etat)
        r_out_parallel == VScale(n, FNeg(FSqrt(FSub(Scale, LengthSquared(r_out_perp)))))
    IN  VAdd(r_out_perp, r_out_parallel)

\* NullMaterial::scatter
NullScatter(mat, r_in, rec) == {None}

\* Lambertian::scatter, one result per random unit vector
LambertianScatter(mat, r_in, rec) ==
    { LET sum               == VAdd(rec.normal, u)
          scatter_direction == IF NearZero(sum) THEN rec.normal ELSE sum
      IN  Some([scattered |-> Ray(rec.p, scatter_direction), attenuation |-> mat.albedo])
      : u \in RandomUnitVector }

\* Metal::scatter, one result per random unit vector
MetalScatter(mat, r_in, rec) ==
    { LET reflected == Reflect(r_in.dir, rec.normal)
          fuzzed    == VAdd(Normalized(reflected),
                            VScale(u, FMax(FMin(mat.fuzz, Scale), 0)))
      IN  Some([scattered |-> Ray(rec.p, fuzzed), attenuation |-> mat.albedo])
      : u \in RandomUnitVector }

\* Dielectric::reflanctance
Reflectance(cosine, refraction_index) ==
    LET q   == FDiv(FSub(Scale, refraction_index), FAdd(Scale, refraction_index))
        r0  == FMul(q, q)
        m   == FSub(Scale, cosine)
        m5  == FMul(FMul(FMul(FMul(m, m), m), m), m)
    IN  FAdd(r0, FMul(FSub(Scale, r0), m5))

\* the branch taken without the cant_refract test
ReflectChosenByChanceOnly(cant_refract, reflectance, f) == FGt(reflectance, f)

\* cant_refract || Dielectric::reflanctance(cos_theta, ri) > random_f64()
ReflectChosen(cant_refract, reflectance, f) == cant_refract \/ FGt(reflectance, f)

\* Dielectric::scatter for the draw f of random_f64(): what it computes, the
\* draw if it is made (|| does not evaluate it when cant_refract), the
\* function it calls for the direction, and what it returns
DielectricTrace(mat, r_in, rec, f) ==
    LET attenuation    == Vec3(Scale, Scale, Scale)
        ri             == IF rec.front_face THEN FDiv(Scale, mat.ir) ELSE mat.ir
        unit_direction == Normalized(r_in.dir)
        cos_theta      == FMin(Dot(rec.normal, Neg(unit_direction)), Scale)
        sin_theta      == FSqrt(FSub(Scale, FMul(cos_theta, cos_theta)))
        cant_refract   == FGt(FMul(ri, sin_theta), Scale)
        reflects       == ReflectChosen(cant_refract, Reflectance(cos_theta, ri), f)
        direction      == IF reflects
                          THEN Reflect(unit_direction, rec.normal)
                          ELSE Refract(unit_direction, rec.normal, ri)
    IN  [ri |-> ri, sin_theta |-> sin_theta,
         f |-> IF cant_refract THEN None ELSE Some(f),
         called |-> IF reflects THEN "reflect" ELSE "refract",
         out |-> Some([scattered |-> Ray(rec.p, direction), attenuation |-> attenuation])]

\* Dielectric::scatter, one result per draw of random_f64()
DielectricScatter(mat, r_in, rec) ==
    { DielectricTrace(mat, r_in, rec, f).out : f \in RandomF64 }

\* rec.mat.scatter(r, &rec): dispatch on the material behind the Arc
Scatter(mat, r_in, rec) ==
    CASE mat.kind = "NullMaterial" -> NullScatter(mat, r_in, rec)
      [] mat.kind = "Lambertian"   -> LambertianScatter(mat, r_in, rec)
      [] mat.kind = "Metal"        -> MetalScatter(mat, r_in, rec)
      [] mat.kind = "Dielectric"   -> DielectricScatter(mat, r_in, rec)

-----------------------------------------------------------------------------
(* Camera::ray_color (camera.rs:207-226).                                  *)

Black == Zero

\* the interval ray_color searches: Interval::new(0.001, INFINITY)
HitInterval == Interval(Scale \div 1000, INFINITY)

\* world.hit(r, hit_interval)
WorldHit(objects, r) == HittableListHit(objects, r, HitInterval)

\* the sky gradient of a ray that hits nothing
Background(r) ==
    LET unit_direction == Normalized(r.dir)
        a              == FMul(Scale \div 2, FAdd(unit_direction.y, Scale))
    IN  VAdd(VScale(Vec3(Scale, Scale, Scale), FSub(Scale, a)),
             VScale(Vec3(Scale \div 2, (7 * Scale) \div 10, Scale), a))

\* attenuation * <the recursive call's colour>
Attenuate(attenuation, color) == VMul(attenuation, color)

\* ray_color without the test of depth
RayColorBodyNoDepthTest(r, depth, hit, out) ==
    IF IsSome(hit)
    THEN IF IsSome(out)
         THEN [kind |-> "recurse", attenuation |-> out.val.attenuation,
               scattered |-> out.val.scattered, depth |-> depth - 1,
               hit_calls |-> 1, scatter_calls |-> 1]
         ELSE [kind |-> "return", color |-> Black,
               hit_calls |-> 1, scatter_calls |-> 1]
    ELSE [kind |-> "return", color |-> Background(r),
          hit_calls |-> 1, scatter_calls |-> 0]

\* ray_color recursing with its own depth
RayColorBodySameDepth(r, depth, hit, out) ==
    IF depth <= 0
    THEN [kind |-> "return", color |-> Black, hit_calls |-> 0, scatter_calls |-> 0]
    ELSE IF IsSome(hit)
         THEN IF IsSome(out)
              THEN [kind |-> "recurse", attenuation |-> out.val.attenuation,
                    scattered |-> out.val.scattered, depth |-> depth,
                    hit_calls |-> 1, scatter_calls |-> 1]
              ELSE [kind |-> "return", color |-> Black,
                    hit_calls |-> 1, scatter_calls |-> 1]
         ELSE [kind |-> "return", color |-> Background(r),
               hit_calls |-> 1, scatter_calls |-> 0]

\* ray_color falling through to the sky when scatter yields nothing
RayColorBodyAbsorbedAsSky(r, depth, hit, out) ==
    IF depth <= 0
    THEN [kind |-> "return", color |-> Black, hit_calls |-> 0, scatter_calls |-> 0]
    ELSE IF IsSome(hit) /\ IsSome(out)
         THEN [kind |-> "recurse", attenuation |-> out.val.attenuation,
               scattered |-> out.val.scattered, depth |-> depth - 1,
               hit_calls |-> 1, scatter_calls |-> 1]
         ELSE [kind |-> "return", color |-> Background(r),
               hit_calls |-> 1,
               scatter_calls |-> IF IsSome(hit) THEN 1 ELSE 0]

\* What one call does before it returns or recurses, for the result `hit` of
\* world.hit (read only when depth > 0) and the scatter result `out` drawn
\* when the ray hits: [kind |-> "return", color] or
\* [kind |-> "recurse", attenuation, scattered], with the number of
\* world.hit and of scatter calls it made.
RayColorBody(r, depth, hit, out) ==
    IF depth <= 0
    THEN [kind |-> "return", color |-> Black, hit_calls |-> 0, scatter_calls |-> 0]
    ELSE IF IsSome(hit)
         THEN IF IsSome(out)
              THEN [kind |-> "recurse", attenuation |-> out.val.attenuation,
                    scattered |-> out.val.scattered, depth |-> depth - 1,
                    hit_calls |-> 1, scatter_calls |-> 1]
              ELSE [kind |-> "return", color |-> Black,
                    hit_calls |-> 1, scatter_calls |-> 1]
         ELSE [kind |-> "return", color |-> Background(r),
               hit_calls |-> 1, scatter_calls |-> 0]

\* the results rec.mat.scatter can give for the ray's hit; None stands for
\* "not called" when the ray hits nothing
ScatterDraws(r, hit) ==
    IF IsSome(hit) THEN Scatter(hit.val.mat, r, hit.val) ELSE {None}

-----------------------------------------------------------------------------
(* write_color (color.rs).                                                 *)

U8Max == 255

\* `x as u8` of an f64: the integer part, saturated to 0 ..= 255; NaN gives 0
AsU8(x) ==
    IF IsNaN(x) \/ x < 0 THEN 0
    ELSE IF x = INFINITY \/ x \div Scale > U8Max THEN U8Max
    ELSE x \div Scale

\* linear_to_gamma
LinearToGamma(linear_component) ==
    IF FGt(linear_component, 0) THEN FSqrt(linear_component) ELSE 0

\* the interval write_color clamps to: Interval::new(0.000, 0.999)
Intensity == Interval(0, (999 * Scale) \div 1000)

\* a byte scaled by 255.0 instead of 255.999
ChannelByteScale255(c) ==
    AsU8(FMul(255 * Scale, Clamp(Intensity, LinearToGamma(c))))

\* (255.999 * intensity.clamp(linear_to_gamma(c))) as u8
ChannelByte(c) ==
    AsU8(FMul((255999 * Scale) \div 1000, Clamp(Intensity, LinearToGamma(c))))

\* the line write_color writes for a colour: "{rbyte} {gbyte} {bbyte}\n"
ColorLine(pixel_color) ==
    <<ChannelByte(pixel_color.x), ChannelByte(pixel_color.y), ChannelByte(pixel_color.z)>>

-----------------------------------------------------------------------------
(* Camera::new and Camera::initialize (camera.rs:33-107).                  *)

\* The model's u32 has U32Bits bits.
U32Bits == 4

U32Max == 2 ^ U32Bits - 1

\* `n as f64` of a u32
ToF64(n) == n * Scale

\* `x as u32` of an f64: the integer part, saturated to the u32 range; NaN gives 0
AsU32(x) ==
    IF IsNaN(x) \/ x < 0 THEN 0
    ELSE IF x = INFINITY \/ x \div Scale > U32Max THEN U32Max
    ELSE x \div Scale

\* f64::round: to the nearest integer, ties away from zero
FRound(x) == IF IsNaN(x) \/ IsInf(x) THEN x ELSE RDiv(x, Scale) * Scale

PI == RDiv(31416 * Scale, 10000)

\* degrees_to_radians
DegreesToRadians(degrees) == FDiv(FMul(degrees, PI), 180 * Scale)

\* f64::tan at the angles the cameras of the model use: 0 and pi/4
Tan(x) == CASE x = 0 -> 0
            [] x = FDiv(DegreesToRadians(90 * Scale), 2 * Scale) -> Scale + 1

\* the arguments of Camera::new, in its order
CameraArgs(aspect_ratio, image_width, samples_per_pixel, max_depth, defocus_angle) ==
    [ aspect_ratio |-> aspect_ratio, image_width |-> image_width,
      samples_per_pixel |-> samples_per_pixel, max_depth |-> max_depth,
      vfov |-> 90 * Scale, lookfrom |-> Zero, lookat |-> V(0, 0, -1),
      vup |-> V(0, 1, 0), defocus_angle |-> defocus_angle, focus_dist |-> Scale ]

\* the struct Camera::new builds from its arguments before it calls initialize
CameraNew(a) ==
    [ aspect_ratio |-> a.aspect_ratio, image_width |-> a.image_width,
      samples_per_pixel |-> a.samples_per_pixel, max_depth |-> a.max_depth,
      vfov |-> a.vfov, lookfrom |-> a.lookfrom, lookat |-> a.lookat, vup |-> a.vup,
      defocus_angle |-> a.defocus_angle, focus_dist |-> a.focus_dist,
      u |-> Zero, v |-> Zero, w |-> Zero,
      pixel_sample_scale |-> FDiv(Scale, ToF64(a.samples_per_pixel)),
      image_height |-> 0, center |-> Zero, pixel00_loc |-> Zero,
      pixel_delta_u |-> Zero, pixel_delta_v |-> Zero,
      defocus_disk_u |-> Zero, defocus_disk_v |-> Zero,
      pc |-> "constructed" ]

\* the image height without the floor of 1
ImageHeightNoFloor(image_width, aspect_ratio) ==
    AsU32(FRound(FDiv(ToF64(image_width), aspect_ratio)))

\* (image_width as f64 / aspect_ratio).round().max(1.0) as u32
ImageHeight(image_width, aspect_ratio) ==
    AsU32(FMax(FRound(FDiv(ToF64(image_width), aspect_ratio)), Scale))

\* Camera::initialize
Initialize(cam) ==
    LET image_height    == ImageHeight(cam.image_width, cam.aspect_ratio)
        center          == cam.lookfrom
        theta           == DegreesToRadians(cam.vfov)
        h               == Tan(FDiv(theta, 2 * Scale))
        viewport_height == FMul(FMul(2 * Scale, h), cam.focus_dist)
        viewport_width  == FMul(viewport_height,
                                FDiv(ToF64(cam.image_width), ToF64(image_height)))
        w               == Normalized(VSub(cam.lookfrom, cam.lookat))
        u               == Normalized(Cross(cam.vup, w))
        v               == Cross(w, u)
        viewport_u      == VScale(u, viewport_width)
        viewport_v      == VScale(Neg(v), viewport_height)
        pixel_delta_u   == VDiv(viewport_u, ToF64(cam.image_width))
        pixel_delta_v   == VDiv(viewport_v, ToF64(image_height))
        viewport_upper_left ==
            VSub(VSub(VSub(center, VScale(w, cam.focus_dist)),
                      VDiv(viewport_u, 2 * Scale)),
                 VDiv(viewport_v, 2 * Scale))
        pixel00_loc     == VAdd(viewport_upper_left,
                                VScale(VAdd(pixel_delta_u, pixel_delta_v), Scale \div 2))
        defocus_radius  ==
            FMul(cam.focus_dist,
                 Tan(DegreesToRadians(FDiv(cam.defocus_angle, 2 * Scale))))
    IN  [cam EXCEPT !.image_height = image_height, !.center = center,
                    !.w = w, !.u = u, !.v = v,
                    !.pixel_delta_u = pixel_delta_u, !.pixel_delta_v = pixel_delta_v,
                    !.pixel00_loc = pixel00_loc,
                    !.defocus_disk_u = VScale(u, defocus_radius),
                    !.defocus_disk_v = VScale(v, defocus_radius),
                    !.pc = "initialized"]

-----------------------------------------------------------------------------
(* Camera::get_ray and the colours of one sample (camera.rs:207-253).      *)

\* random_f64_range(min, max)
RandomF64Range(min, max) == {FAdd(min, FMul(FSub(max, min), x)) : x \in RandomF64}

\* Vec3::random_in_unit_disk(): the loop returns the first draw inside the disk
RandomInUnitDisk ==
    { p \in { Vec3(a, b, 0) : a \in RandomF64Range(-Scale, Scale),
                              b \in RandomF64Range(-Scale, Scale) }
        : FLt(LengthSquared(p), Scale) }

\* Camera::sample_square
SampleSquare(cam) ==
    IF cam.samples_per_pixel = 1 THEN {Zero}
    ELSE { Vec3(FSub(a, Scale \div 2), FSub(b, Scale \div 2), 0)
           : a \in RandomF64, b \in RandomF64 }

\* Camera::defocus_disk_sample
DefocusDiskSample(cam) ==
    { VAdd(VAdd(cam.center, VScale(cam.defocus_disk_u, p.x)),
           VScale(cam.defocus_disk_v, p.y))
      : p \in RandomInUnitDisk }

\* the origins get_ray can choose: the centre, or a sample of the defocus disk
RayOrigins(cam) ==
    IF FLe(cam.defocus_angle, 0) THEN {cam.center} ELSE DefocusDiskSample(cam)

\* Camera::get_ray for the offset sample_square drew and the origin chosen
GetRayFor(cam, i, j, offset, ray_origin) ==
    LET pixel_sample ==
            VAdd(VAdd(cam.pixel00_loc,
                      VScale(cam.pixel_delta_u, FAdd(ToF64(i), offset.x))),
                 VScale(cam.pixel_delta_v, FAdd(ToF64(j), offset.y)))
    IN  Ray(ray_origin, VSub(pixel_sample, ray_origin))

\* Camera::get_ray: the rays its draws can give for pixel (i, j)
GetRay(cam, i, j) ==
    { GetRayFor(cam, i, j, offset, ray_origin)
      : offset \in SampleSquare(cam), ray_origin \in RayOrigins(cam) }

RECURSIVE RayColor(_, _, _), RayColorOn(_, _, _, _)

\* Camera::ray_color as a whole: the colours its scatter draws can give
RayColor(r, depth, objects) == RayColorOn(r, depth, objects, WorldHit(objects, r))

\* ray_color for the result `hit` of its world.hit
RayColorOn(r, depth, objects, hit) ==
    UNION { LET body == RayColorBody(r, depth, hit, out) IN
            IF body.kind = "return" THEN {body.color}
            ELSE { Attenuate(body.attenuation, c)
                   : c \in RayColor(body.scattered, body.depth, objects) }
            : out \in ScatterDraws(r, hit) }

-----------------------------------------------------------------------------
(* Values of the machines that are not running.                            *)

Idle == [pc |-> "idle"]

-----------------------------------------------------------------------------
(* HittableList::hit, iteration by iteration.                              *)

MaxObjects == 3

Grey == Vec3(500, 500, 500)

\* The members a list is drawn from.  From the origin looking down -z the
\* first two are entered at the same t = 1, the third lies behind them, the
\* fourth is off the axis and the fifth encloses the origin.
HitSpheres ==
    { Sphere(V(0, 0, -2), Scale, Lambertian(Grey)),
      Sphere(V(0, 0, -3), 2 * Scale, Metal(Grey, 0)),
      Sphere(V(0, 0, -5), Scale, Dielectric(1500)),
      Sphere(V(0, 2, -2), Scale, NullMaterial),
      Sphere(Zero, Scale \div 2, Lambertian(Vec3(Scale, 0, 0))) }

HitRays ==
    { Ray(Zero, V(0, 0, -1)),
      Ray(Zero, V(0, 1, -1)),
      Ray(V(0, 0, -7), V(0, 0, 1)) }

HitIntervals ==
    { Interval(Scale \div 1000, INFINITY),
      Interval(Scale, 3 * Scale),
      Interval(-INFINITY, INFINITY) }

\* Sphere::new takes any radius: a sphere of radius 0 on the axis and a
\* sphere of negative radius
HitDegenerateSpheres ==
    { Sphere(V(0, 0, -2), 0, Lambertian(Grey)),
      Sphere(V(0, 0, -2), -Scale, Dielectric(1500)) }

\* the lists of up to MaxObjects different members, in every order, and the
\* lists of one degenerate sphere
HitLists ==
    UNION { { o \in [1 .. n -> HitSpheres] :
                \A i, j \in 1 .. n : i # j => o[i] # o[j] } : n \in 0 .. MaxObjects }
      \cup { <<s>> : s \in HitDegenerateSpheres }

HitInit ==
    /\ list_hit \in
         { [pc |-> "loop", objects |-> o, r |-> r, ray_t |-> ray_t, k |-> 1,
            closest_hitrecord |-> HitListStart(ray_t).closest_hitrecord,
            closest_so_far |-> HitListStart(ray_t).closest_so_far,
            call |-> None, result |-> None]
           : o \in HitLists, r \in HitRays, ray_t \in HitIntervals }
    /\ rc = Idle /\ wc = Idle /\ camera = Idle /\ world = << >> /\ render = Idle
    /\ vi = Idle /\ ds = Idle /\ gr = Idle

\* one iteration: objects[k].hit(r, Interval::new(ray_t.min, closest_so_far))
HitIterate ==
    /\ list_hit.pc = "loop"
    /\ list_hit.k <= Len(list_hit.objects)
    /\ LET st   == [closest_hitrecord |-> list_hit.closest_hitrecord,
                    closest_so_far |-> list_hit.closest_so_far]
           obj  == list_hit.objects[list_hit.k]
           iv   == MemberInterval(st, list_hit.ray_t)
           next == HitListBody(st, obj, list_hit.r, list_hit.ray_t)
       IN  list_hit' = [list_hit EXCEPT
                          !.k = @ + 1,
                          !.closest_hitrecord = next.closest_hitrecord,
                          !.closest_so_far = next.closest_so_far,
                          !.call = Some([object |-> obj, ray_t |-> iv,
                                         out |-> MemberHit(st, obj, list_hit.r,
                                                           list_hit.ray_t)])]
    /\ UNCHANGED <<rc, wc, camera, world, render, vi, ds, gr>>

\* the loop is over: closest_hitrecord is returned
HitReturn ==
    /\ list_hit.pc = "loop"
    /\ list_hit.k > Len(list_hit.objects)
    /\ list_hit' = [list_hit EXCEPT !.pc = "done", !.result = list_hit.closest_hitrecord]
    /\ UNCHANGED <<rc, wc, camera, world, render, vi, ds, gr>>

HitNext == HitIterate \/ HitReturn

SpecHit == HitInit /\ [][HitNext]_vars

-----------------------------------------------------------------------------
(* Claims about HittableList::hit and Sphere::hit, under SpecHit.          *)

\* what each member of the finished call answers about the caller's interval
MemberHits ==
    { SphereHit(list_hit.objects[i], list_hit.r, list_hit.ray_t)
        : i \in 1 .. Len(list_hit.objects) } \ {None}

\* the list reordered by the permutation p of its indices
Permuted(objects, p) == [i \in 1 .. Len(objects) |-> objects[p[i]]]

\* the finished call returned a nearest valid hit, or nothing when no member is hit
ReturnsNearest ==
    /\ MemberHits = {} => list_hit.result = None
    /\ MemberHits # {} =>
         /\ list_hit.result \in MemberHits
         /\ \A h \in MemberHits : list_hit.result.val.t <= h.val.t

\* the members that are hit at the smallest t
NearestMembers ==
    { i \in 1 .. Len(list_hit.objects) :
        LET h == SphereHit(list_hit.objects[i], list_hit.r, list_hit.ray_t) IN
        /\ IsSome(h)
        /\ \A g \in MemberHits : h.val.t <= g.val.t }

\* C1 as stated: HittableList.hit returns the globally nearest valid hit (or
\* nothing when no member is hit), and the returned hit is the same record for
\* every permutation of the list.
C1_SameHitForEveryOrder ==
    list_hit.pc = "done" =>
        /\ ReturnsNearest
        /\ \A p \in Permutations(1 .. Len(list_hit.objects)) :
             HittableListHit(Permuted(list_hit.objects, p), list_hit.r, list_hit.ray_t)
                = list_hit.result

\* C1 (amended): HittableList.hit returns a hit with the smallest t among the
\* members' hits strictly inside the interval, or nothing when no member is
\* hit; for every permutation of the list it returns a hit exactly when the
\* original order does and with the same t, and the same whole record whenever
\* only one member is hit at that smallest t.
C1_NearestHitAnyOrder ==
    list_hit.pc = "done" =>
        /\ ReturnsNearest
        /\ \A p \in Permutations(1 .. Len(list_hit.objects)) :
             LET other == HittableListHit(Permuted(list_hit.objects, p),
                                          list_hit.r, list_hit.ray_t)
             IN  /\ IsSome(other) = IsSome(list_hit.result)
                 /\ IsSome(other) => other.val.t = list_hit.result.val.t
                 /\ Cardinality(NearestMembers) <= 1 => other = list_hit.result

\* a finished call over three members hit at three different t, the nearest
\* of them the last of the list
C1_Witness ==
    /\ list_hit.pc = "done"
    /\ Len(list_hit.objects) = 3
    /\ Cardinality({h.val.t : h \in MemberHits}) = 3
    /\ NearestMembers = {3}
    /\ IsSome(list_hit.result)

\* C8: Sphere.hit returns nothing when the discriminant is negative; a
\* returned t is one of the two roots, lies strictly inside the interval it
\* was asked about (never on its min or max), and no root inside the interval
\* is smaller; when the discriminant is not negative and nothing is returned,
\* neither root is strictly inside.
C8_SphereHitSmallestRootInside ==
    IsSome(list_hit.call) =>
        LET s     == list_hit.call.val.object
            iv    == list_hit.call.val.ray_t
            out   == list_hit.call.val.out
            roots == SphereRoots(SphereQuadratic(s, list_hit.r))
            in(x) == iv.min < x /\ x < iv.max
        IN  IF SphereQuadratic(s, list_hit.r).discriminant < 0 THEN out = None
            ELSE /\ IsSome(out) =>
                      /\ in(out.val.t)
                      /\ out.val.t \in {roots[1], roots[2]}
                      /\ \A i \in 1 .. 2 : in(roots[i]) => out.val.t <= roots[i]
                 /\ out = None => ~in(roots[1]) /\ ~in(roots[2])
                 /\ in(roots[1]) => IsSome(out) /\ out.val.t = roots[1]
                 /\ ~in(roots[1]) /\ in(roots[2]) => IsSome(out) /\ out.val.t = roots[2]

\* a member answered nothing although its smaller root is exactly the upper
\* bound it was asked about (an earlier member was hit at that very t)
C8_Witness ==
    /\ IsSome(list_hit.call)
    /\ SphereQuadratic(list_hit.call.val.object, list_hit.r).discriminant >= 0
    /\ SphereRoots(SphereQuadratic(list_hit.call.val.object, list_hit.r))[1]
          = list_hit.call.val.ray_t.max
    /\ list_hit.call.val.out = None

\* C15: in every iteration of HittableList::hit the member is asked about
\* the interval from the caller's min to closest_so_far, which is the caller's
\* max until a hit is accepted and the t of the last accepted hit after; an
\* accepted hit becomes the best hit and has t strictly smaller than the
\* hit accepted before it; closest_so_far never increases.
C15_UpperBoundShrinks ==
    [][list_hit.pc = "loop" /\ list_hit'.k = list_hit.k + 1 =>
         LET asked == list_hit'.call.val.ray_t
             out   == list_hit'.call.val.out
         IN  /\ asked.min = list_hit.ray_t.min
             /\ asked.max = list_hit.closest_so_far
             /\ list_hit.closest_so_far =
                  IF IsSome(list_hit.closest_hitrecord)
                  THEN list_hit.closest_hitrecord.val.t ELSE list_hit.ray_t.max
             /\ list_hit'.closest_so_far <= list_hit.closest_so_far
             /\ IsSome(out) =>
                  /\ list_hit'.closest_hitrecord = out
                  /\ list_hit'.closest_so_far = out.val.t
                  /\ out.val.t < list_hit.closest_so_far
                  /\ IsSome(list_hit.closest_hitrecord) =>
                       out.val.t < list_hit.closest_hitrecord.val.t
             /\ out = None =>
                  /\ list_hit'.closest_hitrecord = list_hit.closest_hitrecord
                  /\ list_hit'.closest_so_far = list_hit.closest_so_far]_vars

\* the third member of a list has been accepted after an earlier one was:
\* it was asked about an upper bound below the caller's and is the best hit
C15_Witness ==
    /\ list_hit.pc = "loop"
    /\ list_hit.k = 4
    /\ list_hit.ray_t.max = INFINITY
    /\ IsSome(list_hit.call.val.out)
    /\ list_hit.call.val.ray_t.max < 3 * Scale
    /\ list_hit.closest_so_far < list_hit.call.val.ray_t.max
    /\ list_hit.closest_hitrecord = list_hit.call.val.out

\* the first, in the order `objects`, of the members hit at the smallest t
FirstNearest(objects) ==
    CHOOSE i \in 1 .. Len(objects) :
      /\ objects[i] \in {list_hit.objects[n] : n \in NearestMembers}
      /\ \A k \in 1 .. i - 1 :
           objects[k] \notin {list_hit.objects[n] : n \in NearestMembers}

\* C16: when two or more members are hit at the same smallest t, the call
\* returns the record, material included, that the first of them in the
\* list gives; and for every other order of the list the call returns the
\* same t with the material of the member that comes first in that order.
C16_FirstOfTiedMembersWins ==
    list_hit.pc = "done" /\ Cardinality(NearestMembers) >= 2 =>
        /\ list_hit.result =
             SphereHit(list_hit.objects[FirstNearest(list_hit.objects)],
                       list_hit.r, list_hit.ray_t)
        /\ \A p \in Permutations(1 .. Len(list_hit.objects)) :
             LET permuted == Permuted(list_hit.objects, p)
                 other    == HittableListHit(permuted, list_hit.r, list_hit.ray_t)
             IN  /\ IsSome(other)
                 /\ other.val.t = list_hit.result.val.t
                 /\ other.val.mat = permuted[FirstNearest(permuted)].mat

\* two members of different materials are hit at the same smallest t, the
\* later of them the metal one; the call returned the earlier one's record,
\* and the list reversed returns the metal one's
C16_Witness ==
    /\ list_hit.pc = "done"
    /\ Cardinality(NearestMembers) = 2
    /\ list_hit.result.val.mat.kind = "Lambertian"
    /\ \E n \in NearestMembers : list_hit.objects[n].mat.kind = "Metal"
    /\ LET reversed == [i \in 1 .. Len(list_hit.objects) |->
                          list_hit.objects[Len(list_hit.objects) + 1 - i]]
       IN  HittableListHit(reversed, list_hit.r, list_hit.ray_t).val.mat.kind = "Metal"

\* C14: every record a member's Sphere::hit returns has a normal that opposes
\* the ray, dot(r.dir, rec.normal) <= 0; front_face is true exactly when the
\* dot of r.dir with the outward normal (p - center) / radius is negative;
\* and normal is the outward normal then, and its negation otherwise.
C14_NormalOpposesRay ==
    IsSome(list_hit.call) /\ IsSome(list_hit.call.val.out) =>
        LET s       == list_hit.call.val.object
            rec     == list_hit.call.val.out.val
            outward == VDiv(VSub(rec.p, s.center), s.radius)
        IN  /\ FLe(Dot(list_hit.r.dir, rec.normal), 0)
            /\ rec.front_face <=> FLt(Dot(list_hit.r.dir, outward), 0)
            /\ rec.normal = IF rec.front_face THEN outward ELSE Neg(outward)

-----------------------------------------------------------------------------
(* Camera::ray_color, call by call.  rc.frames[i] is the i-th nested call:  *)
(* its arguments, the scatter result it drew, and its return value once it *)
(* has returned; rc.sp is the call that is running.                        *)

MaxDepth == 3

White == Vec3(Scale, Scale, Scale)

\* scenes: empty; one diffuse sphere over a diffuse ground; an absorbing
\* sphere; a mirror in front of the eye and an absorbing sphere behind it; a
\* glass sphere
RcWorlds ==
    { << >>,
      << Sphere(V(0, 0, -2), Scale, Lambertian(Grey)),
         Sphere(V(0, -3, -2), 2 * Scale, Lambertian(Vec3(Scale, 0, 0))) >>,
      << Sphere(V(0, 0, -2), Scale, NullMaterial) >>,
      << Sphere(V(0, 0, -2), Scale, Metal(Vec3(800, 600, 200), 0)),
         Sphere(V(0, 0, 2), Scale, NullMaterial) >>,
      << Sphere(V(0, 0, -2), Scale, Dielectric(1500)) >> }

RcRays ==
    { Ray(Zero, V(0, 0, -1)), Ray(Zero, V(0, 1, 0)), Ray(Zero, V(0, -1, -2)) }

Frame(r, depth) == [r |-> r, depth |-> depth, out |-> None, ret |-> None]

RcInit ==
    /\ rc \in { [pc |-> "run", world |-> w, frames |-> <<Frame(r, d)>>, sp |-> 1,
                 hit_calls |-> 0, scatter_calls |-> 0, result |-> None]
                : w \in RcWorlds, r \in RcRays, d \in 0 .. MaxDepth }
    /\ list_hit = Idle /\ wc = Idle /\ camera = Idle /\ world = << >> /\ render = Idle
    /\ vi = Idle /\ ds = Idle /\ gr = Idle

\* the running call has yet to execute its body
RcCallReady ==
    /\ rc.pc = "run"
    /\ rc.frames[rc.sp].ret = None
    /\ rc.sp = Len(rc.frames)

\* the running call is a nested one and has its return value
RcReturnReady ==
    /\ rc.pc = "run"
    /\ rc.sp > 1
    /\ IsSome(rc.frames[rc.sp].ret)

\* the outermost call has its return value
RcDoneReady ==
    /\ rc.pc = "run"
    /\ rc.sp = 1
    /\ IsSome(rc.frames[1].ret)

\* the body of the running call, for the result `hit` of its world.hit
RcCallOn(hit) ==
    LET f == rc.frames[rc.sp] IN
    \E out \in ScatterDraws(f.r, hit) :
      LET body  == RayColorBody(f.r, f.depth, hit, out)
          drawn == IF body.scatter_calls > 0 THEN out ELSE None
          count == [rc EXCEPT !.hit_calls = @ + body.hit_calls,
                              !.scatter_calls = @ + body.scatter_calls,
                              !.frames[rc.sp].out = drawn]
      IN  IF body.kind = "return"
          THEN rc' = [count EXCEPT !.frames[rc.sp].ret = Some(body.color)]
          ELSE rc' = [count EXCEPT
                        !.frames = Append(@, Frame(body.scattered, body.depth)),
                        !.sp = @ + 1]

\* the running call has not returned: it returns a colour or calls itself
RcCall ==
    /\ RcCallReady
    /\ RcCallOn(WorldHit(rc.world, rc.frames[rc.sp].r))
    /\ UNCHANGED <<list_hit, wc, camera, world, render, vi, ds, gr>>

\* a nested call has returned: its caller returns attenuation * that colour
RcReturn ==
    /\ RcReturnReady
    /\ rc' = [rc EXCEPT
                !.frames[rc.sp - 1].ret =
                    Some(Attenuate(rc.frames[rc.sp - 1].out.val.attenuation,
                                   rc.frames[rc.sp].ret.val)),
                !.sp = @ - 1]
    /\ UNCHANGED <<list_hit, wc, camera, world, render, vi, ds, gr>>

\* the outermost call has returned
RcDone ==
    /\ RcDoneReady
    /\ rc' = [rc EXCEPT !.pc = "done", !.result = rc.frames[1].ret]
    /\ UNCHANGED <<list_hit, wc, camera, world, render, vi, ds, gr>>

RcNext == RcCall \/ RcReturn \/ RcDone

SpecRayColor == RcInit /\ [][RcNext]_vars

-----------------------------------------------------------------------------
(* Claims about Camera::ray_color, under SpecRayColor.                     *)

\* C5: ray_color called with depth = 0 returns exactly black, for every ray
\* and scene, having made no world.hit call and no scatter call.
C5_DepthZeroIsBlack ==
    rc.pc # "idle" /\ rc.frames[1].depth = 0 =>
        /\ rc.hit_calls = 0 /\ rc.scatter_calls = 0
        /\ Len(rc.frames) = 1
        /\ IsSome(rc.frames[1].ret) => rc.frames[1].ret.val = Vec3(0, 0, 0)
        /\ rc.pc = "done" => rc.result = Some(Vec3(0, 0, 0))

\* a call with depth = 0 has returned in a scene its ray would hit
C5_Witness ==
    /\ rc.pc = "done"
    /\ rc.frames[1].depth = 0
    /\ IsSome(WorldHit(rc.world, rc.frames[1].r))

\* C6: every nested call is passed a depth one less than its caller's, a call
\* with depth d makes at most d world.hit calls and at most d scatter calls,
\* and until the outermost call has returned there is a next step to take.
C6_DepthBoundsTheWork ==
    rc.pc # "idle" =>
        /\ \A i \in 2 .. Len(rc.frames) : rc.frames[i].depth = rc.frames[i - 1].depth - 1
        /\ \A i \in 1 .. Len(rc.frames) : rc.frames[i].depth >= 0
        /\ rc.hit_calls <= rc.frames[1].depth
        /\ rc.scatter_calls <= rc.frames[1].depth
        /\ rc.pc # "done" =>
              \/ /\ RcCallReady
                 /\ ScatterDraws(rc.frames[rc.sp].r,
                                 WorldHit(rc.world, rc.frames[rc.sp].r)) # {}
              \/ RcReturnReady
              \/ RcDoneReady

\* a call with the largest depth has returned after spending the whole budget
C6_Witness ==
    /\ rc.pc = "done"
    /\ rc.frames[1].depth = MaxDepth
    /\ rc.hit_calls = MaxDepth
    /\ rc.scatter_calls = MaxDepth

\* C7: a call with depth > 0 that has returned returned the background
\* gradient if the scene reports no hit in (0.001, +inf); black if the hit
\* material's scatter yielded nothing; and otherwise the attenuation times,
\* componentwise, what ray_color(scattered, depth - 1) returned.
C7_ReturnValue ==
    rc.pc # "idle" =>
      \A i \in 1 .. Len(rc.frames) :
        LET f   == rc.frames[i]
            hit == WorldHit(rc.world, f.r)
        IN  IsSome(f.ret) /\ f.depth > 0 =>
              IF hit = None THEN f.ret.val = Background(f.r)
              ELSE /\ f.out \in Scatter(hit.val.mat, f.r, hit.val)
                   /\ f.out = None => f.ret.val = Vec3(0, 0, 0)
                   /\ IsSome(f.out) =>
                        /\ i < Len(rc.frames)
                        /\ rc.frames[i + 1].r = f.out.val.scattered
                        /\ rc.frames[i + 1].depth = f.depth - 1
                        /\ IsSome(rc.frames[i + 1].ret)
                        /\ f.ret.val = VMul(f.out.val.attenuation, rc.frames[i + 1].ret.val)

\* the outermost call scattered off a mirror into an absorbing sphere: the
\* nested call returned black for the absorbed ray and so did its caller
C7_Witness ==
    /\ rc.pc = "done"
    /\ Len(rc.frames) = 2
    /\ IsSome(rc.frames[1].out)
    /\ rc.frames[2].depth > 0
    /\ IsSome(WorldHit(rc.world, rc.frames[2].r))
    /\ rc.frames[2].out = None
    /\ rc.result = Some(Vec3(0, 0, 0))

-----------------------------------------------------------------------------
(* write_color on its own: one call on any colour, into an empty sink.     *)

\* channel values: negative, zero, inside [0, 1], above 1, infinite and NaN
WcChannels ==
    { -INFINITY, -2 * Scale, -1, 0, 1, Scale \div 4, Scale \div 2,
      (999 * Scale) \div 1000, Scale, Scale + 1, 4 * Scale, INFINITY, NaN }

WcInit ==
    /\ wc \in { [pc |-> "call", pixel_color |-> Vec3(x, y, z), out |-> << >>]
                : x \in WcChannels, y \in WcChannels, z \in WcChannels }
    /\ list_hit = Idle /\ rc = Idle /\ camera = Idle /\ world = << >> /\ render = Idle
    /\ vi = Idle /\ ds = Idle /\ gr = Idle

\* write_color(out, pixel_color)
WcWriteColor ==
    /\ wc.pc = "call"
    /\ wc' = [wc EXCEPT !.pc = "done", !.out = Append(@, ColorLine(wc.pixel_color))]
    /\ UNCHANGED <<list_hit, rc, camera, world, render, vi, ds, gr>>

WcNext == WcWriteColor

SpecWriteColor == WcInit /\ [][WcNext]_vars

\* C9: write_color writes 0 0 0 for the colour (0,0,0) and 255 255 255 for
\* (1,1,1), and for every channel value, negative or above 1 included, the
\* channel written is an integer in 0 .. 255.
C9_BytesClamped ==
    wc.pc = "done" =>
        /\ Len(wc.out) = 1
        /\ \A k \in 1 .. 3 : wc.out[1][k] \in 0 .. 255
        /\ wc.pixel_color = Vec3(0, 0, 0) => wc.out[1] = <<0, 0, 0>>
        /\ wc.pixel_color = Vec3(Scale, Scale, Scale) => wc.out[1] = <<255, 255, 255>>
        /\ \A c \in {"x", "y", "z"} :
             LET k == CASE c = "x" -> 1 [] c = "y" -> 2 [] c = "z" -> 3 IN
             /\ wc.pixel_color[c] = 0 => wc.out[1][k] = 0
             /\ wc.pixel_color[c] = Scale => wc.out[1][k] = 255

\* a colour with a negative channel, a channel above 1 and a channel of 1 has
\* been written as 0 255 255
C9_Witness ==
    /\ wc.pc = "done"
    /\ wc.pixel_color = Vec3(-2 * Scale, 4 * Scale, Scale)
    /\ wc.out = << <<0, 255, 255>> >>

-----------------------------------------------------------------------------
(* Camera::new, step by step: the struct is built, then initialize runs.   *)

\* aspect ratios from 1/1000 to 4, 16/9 among them
CamAspectRatios ==
    { 1, Scale \div 2, Scale, (3 * Scale) \div 2, RDiv(16 * Scale, 9), 2 * Scale, 4 * Scale }

CamInit ==
    /\ camera \in
         { CameraNew(CameraArgs(ar, iw, spp, 2, da))
           : ar \in CamAspectRatios, iw \in 0 .. U32Max, spp \in {1, 2},
             da \in {0, 90 * Scale} }
    /\ list_hit = Idle /\ rc = Idle /\ wc = Idle /\ world = << >> /\ render = Idle
    /\ vi = Idle /\ ds = Idle /\ gr = Idle

\* cam.initialize()
CamInitialize ==
    /\ camera.pc = "constructed"
    /\ camera' = Initialize(camera)
    /\ UNCHANGED <<list_hit, rc, wc, world, render, vi, ds, gr>>

CamNext == CamInitialize

SpecCamera == CamInit /\ [][CamNext]_vars

\* image_width / aspect_ratio as an f64, rounded to the nearest integer
RoundedQuotient == RDiv(FDiv(camera.image_width * Scale, camera.aspect_ratio), Scale)

\* C10 as stated: after initialization image_height equals image_width /
\* aspect_ratio rounded to the nearest integer and is never less than 1.
C10_HeightIsRoundedQuotient ==
    camera.pc = "initialized" =>
        /\ camera.image_height = RoundedQuotient
        /\ camera.image_height >= 1

\* C10 (amended): after initialization image_height equals image_width /
\* aspect_ratio rounded to the nearest integer, raised to 1 when that is less
\* than 1 and lowered to the largest u32 when it is greater, so it is never
\* less than 1.
C10_HeightIsClampedRoundedQuotient ==
    camera.pc = "initialized" =>
        /\ camera.image_height =
             IF RoundedQuotient < 1 THEN 1
             ELSE IF RoundedQuotient > U32Max THEN U32Max
             ELSE RoundedQuotient
        /\ camera.image_height >= 1

\* a camera of width 0 has been initialized: the quotient rounds to 0 and
\* the height is 1
C10_Witness ==
    /\ camera.pc = "initialized"
    /\ camera.image_width = 0
    /\ RoundedQuotient = 0
    /\ camera.image_height = 1

-----------------------------------------------------------------------------
(* Camera::render (camera.rs:143-205).  The parallel map over the pixel    *)
(* indexes is run by NumWorkers worker threads, each evaluating one pixel  *)
(* at a time, sample by sample; the sequential writes follow the collect.  *)
(* render.pixel_colors[idx] is the slot of the collected Vec for idx, with *)
(* the (i, j) its colour was evaluated for; render.completion lists the    *)
(* pixel indexes in the order their evaluations completed.                 *)

NumWorkers == 2

Workers == 1 .. NumWorkers

\* the lines a BufWriter holds before it writes them through to stdout
BufCapacity == 2

\* cameras: 2x2, 3x1 and 1x2 images, a one-pixel image with two samples, with
\* no sample and with a defocus disk, an image of width 0, and a 4x4 image
\* whose pixel count does not fit the model's u32
RenderArgs ==
    { CameraArgs(Scale, 2, 1, 2, 0), CameraArgs(3 * Scale, 3, 1, 2, 0),
      CameraArgs(Scale \div 2, 1, 1, 1, 0), CameraArgs(Scale, 1, 2, 2, 0),
      CameraArgs(Scale, 1, 0, 1, 0), CameraArgs(Scale, 1, 1, 2, 90 * Scale),
      CameraArgs(Scale, 0, 1, 1, 0), CameraArgs(Scale, 4, 1, 1, 0) }

\* scenes: empty, and a diffuse sphere in front of the camera
RenderWorlds == { << >>, << Sphere(V(0, 0, -2), Scale, Lambertian(Grey)) >> }

Init ==
    /\ camera \in { Initialize(CameraNew(a)) : a \in RenderArgs }
    /\ world \in RenderWorlds
    /\ render = [pc |-> "call", num_pixels |-> 0, todo |-> {},
                 worker |-> [wk \in Workers |-> None], pixel_colors |-> << >>,
                 completion |-> << >>, output_buffer |-> << >>, stdout |-> << >>,
                 stderr |-> << >>, k |-> 0]
    /\ list_hit = Idle /\ rc = Idle /\ wc = Idle
    /\ vi = Idle /\ ds = Idle /\ gr = Idle

\* self.image_width * self.image_height, in u32 arithmetic that wraps
NumPixels(cam) == (cam.image_width * cam.image_height) % (U32Max + 1)

\* let num_pixels = ...; the four eprintln!; the parallel iterator is built
RenderBegin ==
    /\ render.pc = "call"
    /\ render' = [render EXCEPT
                    !.pc = "parallel",
                    !.num_pixels = NumPixels(camera),
                    !.todo = 0 .. NumPixels(camera) - 1,
                    !.pixel_colors = [idx \in 0 .. NumPixels(camera) - 1 |-> None],
                    !.stderr = @ \o <<"Starting parallel render...", "Image Dimensions",
                                      "Samples per pixel", "Max depth">>]
    /\ UNCHANGED <<list_hit, rc, wc, camera, world, vi, ds, gr>>

\* the product overflows u32 in a build with overflow checks: render panics
RenderOverflowPanic ==
    /\ render.pc = "call"
    /\ camera.image_width * camera.image_height > U32Max
    /\ render' = [render EXCEPT !.pc = "panicked"]
    /\ UNCHANGED <<list_hit, rc, wc, camera, world, vi, ds, gr>>

\* a worker takes a pixel index: i, j_for_ray and accumulated_color are set
PixelStart(wk, pixel_idx) ==
    /\ render.pc = "parallel"
    /\ render.worker[wk] = None
    /\ pixel_idx \in render.todo
    /\ render' = [render EXCEPT
                    !.todo = @ \ {pixel_idx},
                    !.worker[wk] =
                        Some([pixel_idx |-> pixel_idx,
                              i |-> pixel_idx % camera.image_width,
                              j_for_ray |-> pixel_idx \div camera.image_width,
                              accumulated_color |-> Zero, sample |-> 0])]
    /\ UNCHANGED <<list_hit, rc, wc, camera, world, vi, ds, gr>>

\* the workers after worker wk has added a sample's colour to every running
\* worker's accumulated_color
AccumulateShared(wk, color) ==
    [w \in Workers |->
       IF render.worker[w] = None THEN None
       ELSE Some([render.worker[w].val EXCEPT
                    !.accumulated_color = VAdd(@, color),
                    !.sample = IF w = wk THEN @ + 1 ELSE @])]

\* the workers after worker wk has run accumulated_color += <colour>
Accumulate(wk, color) ==
    [render.worker EXCEPT
       ![wk] = Some([@.val EXCEPT !.accumulated_color = VAdd(@, color),
                                  !.sample = @ + 1])]

\* one iteration of the loop over the samples
PixelSample(wk) ==
    /\ render.pc = "parallel"
    /\ IsSome(render.worker[wk])
    /\ render.worker[wk].val.sample < camera.samples_per_pixel
    /\ \E r \in GetRay(camera, render.worker[wk].val.i, render.worker[wk].val.j_for_ray) :
         \E color \in RayColor(r, camera.max_depth, world) :
           render' = [render EXCEPT !.worker = Accumulate(wk, color)]
    /\ UNCHANGED <<list_hit, rc, wc, camera, world, vi, ds, gr>>

\* the slot of the collected Vec filled next when results are pushed as they
\* complete
CollectSlotByCompletion(pixel_idx) == Len(render.completion)

\* the slot of the collected Vec that receives the result for pixel_idx
CollectSlot(pixel_idx) == pixel_idx

\* the closure returns accumulated_color * pixel_sample_scale into its slot
PixelFinish(wk) ==
    /\ render.pc = "parallel"
    /\ IsSome(render.worker[wk])
    /\ render.worker[wk].val.sample >= camera.samples_per_pixel
    /\ LET w == render.worker[wk].val IN
       render' = [render EXCEPT
                    !.worker[wk] = None,
                    !.pixel_colors[CollectSlot(w.pixel_idx)] =
                        Some([color |-> VScale(w.accumulated_color,
                                               camera.pixel_sample_scale),
                              i |-> w.i, j |-> w.j_for_ray]),
                    !.completion = Append(@, w.pixel_idx)]
    /\ UNCHANGED <<list_hit, rc, wc, camera, world, vi, ds, gr>>

\* collect returning as soon as every pixel index has been taken
CollectedOnceStarted == render.todo = {}

\* collect returns: every pixel index has been taken and every closure has returned
Collected == render.todo = {} /\ \A wk \in Workers : render.worker[wk] = None

\* .collect() returns, and the eprintln! after it
Collect ==
    /\ render.pc = "parallel"
    /\ Collected
    /\ render' = [render EXCEPT
                    !.pc = "header",
                    !.stderr = Append(@, "Parallel computation finished. Writing to output...")]
    /\ UNCHANGED <<list_hit, rc, wc, camera, world, vi, ds, gr>>

\* a write into the BufWriter: the lines held go to stdout when one more
\* does not fit
BufWrite(line) ==
    IF Len(render.output_buffer) + 1 > BufCapacity
    THEN [render EXCEPT !.stdout = @ \o render.output_buffer,
                        !.output_buffer = <<line>>]
    ELSE [render EXCEPT !.output_buffer = Append(@, line)]

\* the n-th line of the header
HeaderLine(n) ==
    CASE n = 1 -> [kind |-> "P3"]
      [] n = 2 -> [kind |-> "size", image_width |-> camera.image_width,
                   image_height |-> camera.image_height]
      [] n = 3 -> [kind |-> "255"]

\* the line write_color writes
PixelLine(pixel_color) == [kind |-> "pixel", bytes |-> ColorLine(pixel_color)]

\* one of the three writeln! of the header
WriteHeader ==
    /\ render.pc = "header"
    /\ render' = [BufWrite(HeaderLine(render.k + 1)) EXCEPT
                    !.k = IF render.k = 2 THEN 0 ELSE @ + 1,
                    !.pc = IF render.k = 2 THEN "pixels" ELSE @]
    /\ UNCHANGED <<list_hit, rc, wc, camera, world, vi, ds, gr>>

\* one iteration of the loop over pixel_colors
WritePixel ==
    /\ render.pc = "pixels"
    /\ render.k < render.num_pixels
    /\ render' = [BufWrite(PixelLine(render.pixel_colors[render.k].val.color))
                    EXCEPT !.k = @ + 1]
    /\ UNCHANGED <<list_hit, rc, wc, camera, world, vi, ds, gr>>

\* output_buffer.flush() and the last eprintln!
Flush ==
    /\ render.pc = "pixels"
    /\ render.k = render.num_pixels
    /\ render' = [render EXCEPT !.pc = "done",
                                !.stdout = @ \o render.output_buffer,
                                !.output_buffer = << >>,
                                !.stderr = Append(@, "Done. Output complete.")]
    /\ UNCHANGED <<list_hit, rc, wc, camera, world, vi, ds, gr>>

Next ==
    \/ RenderBegin
    \/ RenderOverflowPanic
    \/ \E wk \in Workers : \E pixel_idx \in render.todo : PixelStart(wk, pixel_idx)
    \/ \E wk \in Workers : PixelSample(wk)
    \/ \E wk \in Workers : PixelFinish(wk)
    \/ Collect
    \/ WriteHeader
    \/ WritePixel
    \/ Flush

Spec == Init /\ [][Next]_vars

-----------------------------------------------------------------------------
(* Claims about Camera::render, under Spec.                                *)

\* the lines written so far, to stdout or held by the BufWriter
Emitted == render.stdout \o render.output_buffer

\* the lines written after the three lines of the header
PixelLines == SubSeq(Emitted, 4, Len(Emitted))

\* C2: the k-th pixel line render emits (k from 0) is the write_color line of
\* the colour evaluated for pixel i = k mod image_width, j = k div
\* image_width, and row j = 0 is the top row of the viewport, whatever the
\* order in which the workers started and completed the pixels.
C2_RowMajorEmission ==
    render.pc \in {"header", "pixels", "done"} =>
      \A k \in 0 .. Len(PixelLines) - 1 :
        LET computed == render.pixel_colors[k].val IN
        /\ PixelLines[k + 1] = PixelLine(computed.color)
        /\ computed.i = k % camera.image_width
        /\ computed.j = k \div camera.image_width
        /\ FLt(camera.pixel_delta_v.y, 0)

\* a 2x2 image has been written in full, its rows differing, after the
\* workers completed its pixels in an order that is not row-major
C2_Witness ==
    /\ render.pc = "done"
    /\ camera.image_width = 2 /\ camera.image_height = 2
    /\ Len(PixelLines) = 4
    /\ PixelLines[1] # PixelLines[3]
    /\ \E a, b \in 1 .. Len(render.completion) :
         a < b /\ render.completion[a] > render.completion[b]

\* C3: once any line of the image, header or pixel, has been written, every
\* pixel index of the parallel phase has been taken, every worker has
\* returned and every slot of pixel_colors holds its colour.
C3_NothingWrittenBeforeAllComputed ==
    render.pc # "idle" /\ Len(Emitted) > 0 =>
        /\ render.todo = {}
        /\ \A wk \in Workers : render.worker[wk] = None
        /\ \A idx \in 0 .. render.num_pixels - 1 : IsSome(render.pixel_colors[idx])
        /\ Len(render.completion) = render.num_pixels

\* the first line of the header of a four-pixel image has just been written
C3_Witness ==
    /\ render.pc = "header"
    /\ Len(Emitted) = 1
    /\ render.num_pixels = 4
    /\ Len(render.completion) = 4

\* C17: render never aborts on the product image_width * image_height, the
\* pixel count it works with is that product as a number, and once it is
\* done the pixel lines after the header are as many as the width times the
\* height the header announces.
C17_PixelLinesMatchHeader ==
    /\ render.pc # "panicked"
    /\ render.pc \in {"parallel", "header", "pixels", "done"} =>
         render.num_pixels = camera.image_width * camera.image_height
    /\ render.pc = "done" =>
         /\ Emitted[2] = [kind |-> "size", image_width |-> camera.image_width,
                          image_height |-> camera.image_height]
         /\ Len(PixelLines) = Emitted[2].image_width * Emitted[2].image_height

RECURSIVE SampleSums(_, _, _, _, _)

\* the sums of n samples of pixel (i, j) evaluated on its own
SampleSums(cam, objects, i, j, n) ==
    IF n = 0 THEN {Zero}
    ELSE { VAdd(sum, color)
           : sum \in SampleSums(cam, objects, i, j, n - 1),
             color \in UNION { RayColor(r, cam.max_depth, objects)
                               : r \in GetRay(cam, i, j) } }

\* the colours pixel (i, j) can get when it is evaluated on its own
PixelColors(cam, objects, i, j) ==
    { VScale(sum, cam.pixel_sample_scale)
      : sum \in SampleSums(cam, objects, i, j, cam.samples_per_pixel) }

\* C4: a step of the parallel phase writes no camera field and no scene
\* object or material, changes the local state of one worker at most, and
\* fills only an empty slot of pixel_colors, with a colour that the pixel's
\* own index and draws give on the read-only camera and scene.
C4_NoSharedMutableState ==
    [][render.pc = "parallel" =>
         /\ camera' = camera
         /\ world' = world
         /\ \A wk, other \in Workers :
              render'.worker[wk] # render.worker[wk] /\ other # wk =>
                  render'.worker[other] = render.worker[other]
         /\ \A idx \in 0 .. render.num_pixels - 1 :
              render'.pixel_colors[idx] # render.pixel_colors[idx] =>
                  /\ render.pixel_colors[idx] = None
                  /\ render'.pixel_colors[idx].val.i = idx % camera.image_width
                  /\ render'.pixel_colors[idx].val.j = idx \div camera.image_width
                  /\ render'.pixel_colors[idx].val.color
                       \in PixelColors(camera, world, idx % camera.image_width,
                                       idx \div camera.image_width)]_vars

\* two workers are in the middle of two pixels, each with a sample added,
\* while a later pixel has already been completed
C4_Witness ==
    /\ render.pc = "parallel"
    /\ \A wk \in Workers :
         IsSome(render.worker[wk]) /\ render.worker[wk].val.sample > 0
    /\ \E idx \in 0 .. render.num_pixels - 1 :
         /\ IsSome(render.pixel_colors[idx])
         /\ \E wk \in Workers : render.worker[wk].val.pixel_idx < idx

-----------------------------------------------------------------------------
(* Index<usize> and IndexMut<usize> for Vec3 (vec3.rs:228-250): one        *)
(* indexing expression, v[index] read or v[index] = value.                 *)

MaxIndex == 4

\* the outcome of panic!("Index out of bounds for Vec3")
IndexPanic == [tag |-> "panic", msg |-> "Index out of bounds for Vec3"]

\* an index beyond 2 reading the last component
IndexSaturating(v, index) ==
    CASE index = 0 -> Some(v.x)
      [] index = 1 -> Some(v.y)
      [] OTHER     -> Some(v.z)

\* Index::index: the component referred to, or the panic
Index(v, index) ==
    CASE index = 0 -> Some(v.x)
      [] index = 1 -> Some(v.y)
      [] index = 2 -> Some(v.z)
      [] OTHER     -> IndexPanic

\* IndexMut::index_mut followed by the store: the vector after
\* v[index] = value, or the panic
IndexMut(v, index, value) ==
    CASE index = 0 -> Some([v EXCEPT !.x = value])
      [] index = 1 -> Some([v EXCEPT !.y = value])
      [] index = 2 -> Some([v EXCEPT !.z = value])
      [] OTHER     -> IndexPanic

\* component values, NaN among them
ViComponents == {-Scale, 0, 2 * Scale, NaN}

ViInit ==
    /\ vi \in { [pc |-> "call", op |-> op, arg |-> Vec3(x, y, z), v |-> Vec3(x, y, z),
                 index |-> index, value |-> 7 * Scale, out |-> None]
                : op \in {"index", "index_mut"}, x \in ViComponents,
                  y \in ViComponents, z \in ViComponents, index \in 0 .. MaxIndex }
    /\ list_hit = Idle /\ rc = Idle /\ wc = Idle /\ camera = Idle /\ world = << >>
    /\ render = Idle /\ ds = Idle /\ gr = Idle

\* let out = v[index]
ViIndex ==
    /\ vi.pc = "call" /\ vi.op = "index"
    /\ LET res == Index(vi.v, vi.index) IN
       vi' = IF IsSome(res) THEN [vi EXCEPT !.pc = "returned", !.out = res]
             ELSE [vi EXCEPT !.pc = "panicked"]
    /\ UNCHANGED <<list_hit, rc, wc, camera, world, render, ds, gr>>

\* v[index] = value
ViIndexMut ==
    /\ vi.pc = "call" /\ vi.op = "index_mut"
    /\ LET res == IndexMut(vi.v, vi.index, vi.value) IN
       vi' = IF IsSome(res) THEN [vi EXCEPT !.pc = "returned", !.v = res.val]
             ELSE [vi EXCEPT !.pc = "panicked"]
    /\ UNCHANGED <<list_hit, rc, wc, camera, world, render, ds, gr>>

ViNext == ViIndex \/ ViIndexMut

SpecIndex == ViInit /\ [][ViNext]_vars

\* C11: an indexing with index 0, 1 or 2 reads, or stores into, x, y or z
\* respectively and leaves the other components alone; with any other
\* index it panics, having returned no component and modified none.
C11_IndexFailsFast ==
    vi.pc \in {"returned", "panicked"} =>
        LET field == CASE vi.index = 0 -> "x" [] vi.index = 1 -> "y"
                       [] vi.index = 2 -> "z" [] OTHER -> "none"
        IN  IF field = "none"
            THEN vi.pc = "panicked" /\ vi.out = None /\ vi.v = vi.arg
            ELSE /\ vi.pc = "returned"
                 /\ vi.op = "index" =>
                      vi.out = Some(vi.arg[field]) /\ vi.v = vi.arg
                 /\ vi.op = "index_mut" =>
                      /\ vi.v[field] = vi.value
                      /\ \A f \in {"x", "y", "z"} \ {field} : vi.v[f] = vi.arg[f]

\* a store through index 3 has panicked and left the vector as it was
C11_Witness ==
    /\ vi.pc = "panicked"
    /\ vi.op = "index_mut"
    /\ vi.index = 3
    /\ vi.v = vi.arg

-----------------------------------------------------------------------------
(* Dielectric::scatter on its own (material.rs:80-105): one call, on the   *)
(* record of a ray's hit on a unit sphere of the material.                 *)

\* refraction indexes: glass, its inverse, 1, diamond and 0
DsIndexes == {(3 * Scale) \div 2, RDiv(2 * Scale, 3), Scale, (12 * Scale) \div 5, 0}

\* rays that meet the sphere head-on and obliquely from outside, and at
\* several angles from inside
DsRays ==
    { Ray(Zero, V(0, 0, -1)), Ray(Zero, V(0, 1, -2)),
      Ray(Vec3(Scale \div 2, 0, 0), V(0, 0, -1)),
      Ray(V(0, 0, -2), V(0, 0, -1)),
      Ray(Vec3(0, (3 * Scale) \div 5, -2 * Scale), V(0, 0, -1)),
      Ray(Vec3(0, (9 * Scale) \div 10, -2 * Scale), V(0, 0, -1)),
      Ray(Vec3(0, (3 * Scale) \div 10, -2 * Scale), V(0, 0, -1)),
      Ray(Vec3(0, (7 * Scale) \div 10, -2 * Scale), V(1, 0, -1)),
      Ray(Vec3(Scale \div 5, 0, 0), V(0, 0, -1)),
      Ray(V(0, 0, -4), V(0, 1, 3)) }

DsSphere(ir) == Sphere(V(0, 0, -2), Scale, Dielectric(ir))

DsInit ==
    /\ ds \in { [pc |-> "call", mat |-> Dielectric(ir), r_in |-> r,
                 rec |-> SphereHit(DsSphere(ir), r, HitInterval).val,
                 f |-> None, ri |-> 0, sin_theta |-> 0, called |-> "none",
                 out |-> None]
                : ir \in DsIndexes,
                  r \in {q \in DsRays : IsSome(SphereHit(DsSphere(Scale), q, HitInterval))} }
    /\ list_hit = Idle /\ rc = Idle /\ wc = Idle /\ camera = Idle /\ world = << >>
    /\ render = Idle /\ vi = Idle /\ gr = Idle

\* self.scatter(r_in, &rec)
DsScatter ==
    /\ ds.pc = "call"
    /\ \E f \in RandomF64 :
         LET trace == DielectricTrace(ds.mat, ds.r_in, ds.rec, f) IN
         ds' = [ds EXCEPT !.pc = "returned", !.f = trace.f, !.ri = trace.ri,
                          !.sin_theta = trace.sin_theta, !.called = trace.called,
                          !.out = trace.out]
    /\ UNCHANGED <<list_hit, rc, wc, camera, world, render, vi, gr>>

DsNext == DsScatter

SpecDielectric == DsInit /\ [][DsNext]_vars

\* sin_theta of the ray on the record's normal, as scatter derives it
DsSinTheta ==
    LET cos_theta == FMin(Dot(ds.rec.normal, Neg(Normalized(ds.r_in.dir))), Scale)
    IN  FSqrt(FSub(Scale, FMul(cos_theta, cos_theta)))

\* 1/ir on a front-face hit and ir otherwise
DsRatio == IF ds.rec.front_face THEN FDiv(Scale, ds.mat.ir) ELSE ds.mat.ir

\* C12: a call of Dielectric::scatter returns a result with attenuation
\* (1,1,1), and when ratio * sin_theta > 1, ratio being 1/ir on a front face
\* and ir otherwise, it has called reflect and not refract.
C12_NoRefractUnderTotalReflection ==
    ds.pc = "returned" =>
        /\ IsSome(ds.out)
        /\ ds.out.val.attenuation = Vec3(Scale, Scale, Scale)
        /\ ds.out.val.scattered.orig = ds.rec.p
        /\ ds.ri = DsRatio
        /\ FGt(FMul(DsRatio, DsSinTheta), Scale) =>
             /\ ds.called = "reflect"
             /\ ds.out.val.scattered.dir = Reflect(Normalized(ds.r_in.dir), ds.rec.normal)
        /\ ds.called = "refract" =>
             /\ ~ FGt(FMul(DsRatio, DsSinTheta), Scale)
             /\ ds.out.val.scattered.dir =
                  Refract(Normalized(ds.r_in.dir), ds.rec.normal, DsRatio)

\* a ray inside glass met the surface beyond the critical angle and was
\* reflected without a random draw
C12_Witness ==
    /\ ds.pc = "returned"
    /\ ~ ds.rec.front_face
    /\ ds.mat.ir = (3 * Scale) \div 2
    /\ FGt(FMul(DsRatio, DsSinTheta), Scale)
    /\ ds.f = None
    /\ ds.called = "reflect"

-----------------------------------------------------------------------------
(* Camera::get_ray on its own (camera.rs:228-253): one call on an          *)
(* initialized camera.                                                     *)

\* cameras of one and two pixels a side, with 0, 1 and 2 samples per pixel,
\* without and with a defocus disk
GrCameras ==
    { Initialize(CameraNew(CameraArgs(Scale, w, spp, 1, da)))
      : w \in {1, 2}, spp \in {0, 1, 2}, da \in {0, 90 * Scale} }

GrInit ==
    /\ gr \in { [pc |-> "call", cam |-> cam, i |-> i, j |-> j,
                 offset |-> None, ray_origin |-> None, ray |-> None]
                : cam \in GrCameras, i \in {0, 1}, j \in {0, 1} }
    /\ list_hit = Idle /\ rc = Idle /\ wc = Idle /\ camera = Idle /\ world = << >>
    /\ render = Idle /\ vi = Idle /\ ds = Idle

\* self.get_ray(i, j)
GrGetRay ==
    /\ gr.pc = "call"
    /\ \E offset \in SampleSquare(gr.cam) : \E ray_origin \in RayOrigins(gr.cam) :
         gr' = [gr EXCEPT !.pc = "returned", !.offset = Some(offset),
                          !.ray_origin = Some(ray_origin),
                          !.ray = Some(GetRayFor(gr.cam, gr.i, gr.j, offset, ray_origin))]
    /\ UNCHANGED <<list_hit, rc, wc, camera, world, render, vi, ds>>

GrNext == GrGetRay

SpecGetRay == GrInit /\ [][GrNext]_vars

\* C13: in a call of get_ray that has returned, the offset lies in
\* [-0.5, 0.5] x [-0.5, 0.5] when samples_per_pixel > 1 and is exactly zero
\* for every other samples_per_pixel; the origin is the camera centre when
\* defocus_angle <= 0 and else center + p.x * defocus_disk_u + p.y *
\* defocus_disk_v for a point p of the unit disk; and the ray goes from the
\* origin to the pixel's sample point.
C13_OffsetAndOrigin ==
    gr.pc = "returned" =>
        LET cam    == gr.cam
            offset == gr.offset.val
            origin == gr.ray_origin.val
            half   == Scale \div 2
        IN  /\ offset.z = 0
            /\ IF cam.samples_per_pixel > 1
               THEN /\ -half <= offset.x /\ offset.x <= half
                    /\ -half <= offset.y /\ offset.y <= half
               ELSE offset = Zero
            /\ IF cam.defocus_angle <= 0
               THEN origin = cam.center
               ELSE \E px, py \in -Scale .. Scale :
                      /\ px * px + py * py < Scale * Scale
                      /\ origin = VAdd(VAdd(cam.center, VScale(cam.defocus_disk_u, px)),
                                       VScale(cam.defocus_disk_v, py))
            /\ gr.ray.val.orig = origin
            /\ gr.ray.val.dir =
                 VSub(VAdd(VAdd(cam.pixel00_loc,
                                VScale(cam.pixel_delta_u, FAdd(ToF64(gr.i), offset.x))),
                           VScale(cam.pixel_delta_v, FAdd(ToF64(gr.j), offset.y))),
                      origin)

====
